---- MODULE Spec2Model ----
(***************************************************************************)
(* Request/quota coordination of the YT AI Processor front end             *)
(* (src/frontend/src/App.js) and its paywall dialog                        *)
(* (src/frontend/src/components/ui/UpgradeDialog.jsx).                     *)
(*                                                                         *)
(* JavaScript strings are sequences of one-character strings, so that      *)
(* String.prototype.trim is computed and not assumed.  The values          *)
(* undefined and null are the one-element sequences Undefined and Null,    *)
(* which no text equals.  Keys (localStorage values, the X-PRO-KEY header) *)
(* are TLA+ strings, NullKey standing for null.                            *)
(*                                                                         *)
(* Two specifications share the state and the completion of a call:        *)
(*   Spec    the handlers of App invoked as operations (the coordinator):  *)
(*           handleTranscribe, handleSummarize, handleEnrich,              *)
(*           buyProVersion, onClose;                                       *)
(*   SpecUI  the rendered application: the handlers are reached only       *)
(*           through the controls App and UpgradeDialog render, with       *)
(*           their disabled attributes and conditional rendering.          *)
(***************************************************************************)
EXTENDS Naturals, Sequences, FiniteSets, Bags, TLC

VARIABLES
    url,                 \* App.js:18
    transcript,          \* App.js:19
    summary,             \* App.js:20
    enrichment,          \* App.js:21
    loading,             \* App.js:22-26
    isUpgradeModalOpen,  \* App.js:27
    proKey,              \* App.js:29
    storage,             \* localStorage[PRO_KEY_STORAGE_NAME]
    mounted,             \* whether the mount effect (App.js:32-37) has run
    calls,               \* bag of axios.post calls awaiting their response
    toast,               \* the notification the last step raised (sonner)
    openedLink,          \* the last link given to window.open
    crashed              \* an error thrown by the mount effect left App

vars == <<url, transcript, summary, enrichment, loading, isUpgradeModalOpen,
          proKey, storage, mounted, calls, toast, openedLink, crashed>>

----------------------------------------------------------------------------
(* Bounds *)

\* Most axios.post calls awaiting a response at one time.
MaxInFlight == 2

----------------------------------------------------------------------------
(* JavaScript values *)

Undefined == <<"#undefined">>
Null == <<"#null">>
EmptyText == <<>>

NullKey == "#null"
NoDetail == "#undefined"
NoLink == "#none"

\* Truthiness of a text value: undefined, null and "" are falsy.
Truthy(v) == v \notin {Undefined, Null, EmptyText}

\* Truthiness of a key: null and "" are falsy.
TruthyKey(k) == k \notin {NullKey, ""}

IsWhiteSpace(ch) == ch = " "

RECURSIVE TrimStart(_)
TrimStart(s) ==
    IF s = <<>> THEN <<>>
    ELSE IF IsWhiteSpace(Head(s)) THEN TrimStart(Tail(s))
    ELSE s

RECURSIVE TrimEnd(_)
TrimEnd(s) ==
    IF s = <<>> THEN <<>>
    ELSE IF IsWhiteSpace(s[Len(s)]) THEN TrimEnd(SubSeq(s, 1, Len(s) - 1))
    ELSE s

\* String.prototype.trim
Trim(s) == TrimEnd(TrimStart(s))

----------------------------------------------------------------------------
(* Program constants and input domains *)

PRO_KEY_STORAGE_NAME == "yt-ai-pro-key"
MOCK_PRO_KEY == "mngBt-Pr0-2025-a1c2d3e4f5g6h7i8j9k0-z9y8x7w6v5u4"
UPGRADE_LINK == "https://SEU_LINK_DE_PAGAMENTO_AQUI"

Stages == {"transcribe", "summarize", "enrich"}

\* What the user may have typed into the URL input.
Urls == {<<>>, <<" ">>, <<"u">>}

\* What localStorage may hold in the slot when the page is opened.
StoredKeys == {NullKey, "", "stored-key"}

\* The browser denies access to localStorage: every call on it throws.
StorageUnavailable == "#unavailable"

\* The argument handed to buyProVersion.
SecretKeys == {"tok-1", MOCK_PRO_KEY}

\* The transcript field of a 2xx transcribe response: missing, empty,
\* whitespace only, or a text.
TranscriptBodies == {Undefined, <<>>, <<" ">>, <<"a">>}

\* The external service's summary and enrichment of a text.
SummaryOf(text) == <<"s">> \o text
EnrichmentOf(text) == <<"e">> \o text

\* The detail field of an error response body.
Details == {NoDetail, "limit reached"}

\* Statuses of error responses: the quota status and one other.
ErrorStatuses == {429, 500}

----------------------------------------------------------------------------
(* Notifications (sonner toasts) *)

NoToast == [kind |-> "none", msg |-> ""]
ToastError(m) == [kind |-> "error", msg |-> m]
ToastSuccess(m) == [kind |-> "success", msg |-> m]

MsgUrlMissing == "Por favor, insira uma URL do YouTube"
MsgTranscriptMissing == "Primeiro obtenha a transcricao do video"
MsgQuota == "Limite de uso excedido. Faca upgrade!"
MsgFailed(action) == "Erro ao executar " \o action
MsgProActivated == "Upgrade Pro ativado! Voce ja pode usar ilimitadamente."

SuccessMsg(action) ==
    CASE action = "transcribe" -> "Transcricao concluida com sucesso!"
      [] action = "summarize" -> "Resumo gerado com sucesso!"
      [] action = "enrich" -> "Conteudo aprimorado com sucesso!"

\* error.response?.data?.detail || fallback
DetailOr(detail, fallback) ==
    IF detail \notin {NoDetail, ""} THEN detail ELSE fallback

----------------------------------------------------------------------------
(* State after construction *)

LoadingIdle == [a \in Stages |-> FALSE]

Init ==
    /\ url = EmptyText
    /\ transcript = EmptyText
    /\ summary = EmptyText
    /\ enrichment = EmptyText
    /\ loading = LoadingIdle
    /\ isUpgradeModalOpen = FALSE
    /\ proKey = NullKey
    /\ storage \in StoredKeys \cup {StorageUnavailable}
    /\ mounted = FALSE
    /\ calls = EmptyBag
    /\ toast = NoToast
    /\ openedLink = NoLink
    /\ crashed = FALSE

----------------------------------------------------------------------------
(* Mount effect, page reload, URL input *)

\* Mutant: the mount effect does not take the stored key.
LoadedKey_Forgets(stored) == NullKey

\* localStorage.getItem(PRO_KEY_STORAGE_NAME); if (storedKey) setProKey(storedKey)
LoadedKey(stored) == IF TruthyKey(stored) THEN stored ELSE NullKey

\* The effect calls localStorage.getItem outside any try: when the call
\* throws, the error leaves the effect, React unmounts App and no handler
\* can be reached.
LoadProKey ==
    /\ ~mounted
    /\ ~crashed
    /\ IF storage = StorageUnavailable
       THEN /\ crashed' = TRUE
            /\ UNCHANGED <<mounted, proKey>>
       ELSE /\ mounted' = TRUE
            /\ proKey' = LoadedKey(storage)
            /\ crashed' = FALSE
    /\ toast' = NoToast
    /\ UNCHANGED <<url, transcript, summary, enrichment, loading,
                   isUpgradeModalOpen, storage, calls, openedLink>>

\* The page is opened again: the component state is constructed anew, the
\* responses of the calls of the closed page are never delivered, and
\* localStorage is kept.
Reload ==
    /\ mounted \/ crashed
    /\ url' = EmptyText
    /\ transcript' = EmptyText
    /\ summary' = EmptyText
    /\ enrichment' = EmptyText
    /\ loading' = LoadingIdle
    /\ isUpgradeModalOpen' = FALSE
    /\ proKey' = NullKey
    /\ mounted' = FALSE
    /\ calls' = EmptyBag
    /\ toast' = NoToast
    /\ crashed' = FALSE
    /\ UNCHANGED <<storage, openedLink>>

\* onChange={(e) => setUrl(e.target.value)}
SetUrl(u) ==
    /\ mounted
    /\ url' = u
    /\ toast' = NoToast
    /\ UNCHANGED <<transcript, summary, enrichment, loading, isUpgradeModalOpen,
                   proKey, storage, mounted, calls, openedLink,
                   crashed>>

----------------------------------------------------------------------------
(* handleApiCall *)

\* Mutant: the flag is raised whatever state is asked for.
setLoadingState_Stuck(prev, action, state) == [prev EXCEPT ![action] = TRUE]

\* setLoading(prev => ({ ...prev, [action]: state }))
setLoadingState(prev, action, state) == [prev EXCEPT ![action] = state]

\* Mutant: the header is never attached.
Headers_Dropped(key) == {}

\* const headers = {}; if (proKey) headers['X-PRO-KEY'] = proKey
Headers(key) == IF TruthyKey(key) THEN {<<"X-PRO-KEY", key>>} ELSE {}

\* The axios.post call handleApiCall issues.
ApiCall(endpoint, data, action) ==
    [endpoint |-> endpoint, data |-> data, action |-> action,
     headers |-> Headers(proKey)]

\* Mutant: the call is issued twice.
HandleApiCallIssue_Twice(endpoint, data, action) ==
    /\ BagCardinality(calls) < MaxInFlight
    /\ loading' = setLoadingState(loading, action, TRUE)
    /\ calls' = calls (+) SetToBag({ApiCall(endpoint, data, action)})
                      (+) SetToBag({ApiCall(endpoint, data, action)})

\* Mutant: issuing a call abandons the calls still awaiting a response.
HandleApiCallIssue_CancelsOthers(endpoint, data, action) ==
    /\ BagCardinality(calls) < MaxInFlight
    /\ loading' = setLoadingState(loading, action, TRUE)
    /\ calls' = SetToBag({ApiCall(endpoint, data, action)})

\* handleApiCall up to its await: the loading flag is raised and one call is
\* issued.
HandleApiCallIssue(endpoint, data, action) ==
    /\ BagCardinality(calls) < MaxInFlight
    /\ loading' = setLoadingState(loading, action, TRUE)
    /\ calls' = calls (+) SetToBag({ApiCall(endpoint, data, action)})

\* The body of a 2xx response to call c (Null: the body is null; Undefined:
\* the expected field is missing).
OkBodies(c) ==
    CASE c.action = "transcribe" -> TranscriptBodies \cup {Null}
      [] c.action = "summarize" -> {Undefined, Null, SummaryOf(c.data[2])}
      [] c.action = "enrich" -> {Undefined, Null, EnrichmentOf(c.data[2])}

\* What axios.post may settle with: status 200 resolves with a body; an error
\* status rejects with error.response; status 0 rejects without a response.
ErrorResponses ==
    {[status |-> s, body |-> Undefined, detail |-> d] :
         s \in ErrorStatuses, d \in Details}
    \cup {[status |-> 0, body |-> Undefined, detail |-> NoDetail]}

Responses(c) ==
    {[status |-> 200, body |-> b, detail |-> NoDetail] : b \in OkBodies(c)}
    \cup ErrorResponses

IsSuccess(r) == r.status = 200

\* Mutant: a successful call closes the dialog.
ModalAfterSuccess_Closes(open) == FALSE

\* try { ... return response.data }: the dialog state is not touched.
ModalAfterSuccess(open) == open

\* Mutant: the 429 branch does not open the dialog.
ModalAfterCatch_Never(open, r) == open

\* Mutant: every failure opens the dialog.
ModalAfterCatch_Always(open, r) == TRUE

\* catch (error): if (error.response?.status === 429) setIsUpgradeModalOpen(true)
ModalAfterCatch(open, r) == IF r.status = 429 THEN TRUE ELSE open

\* catch (error): the toast.error of either branch.
ToastAfterCatch(r, action) ==
    IF r.status = 429
    THEN ToastError(DetailOr(r.detail, MsgQuota))
    ELSE ToastError(DetailOr(r.detail, MsgFailed(action)))

\* Mutant: finally replaces the whole loading object by the idle one.
LoadingAfterFinally_ResetAll(prev, action) == LoadingIdle

\* Mutant: finally leaves the flag as it is.
LoadingAfterFinally_Kept(prev, action) == prev

\* finally { setLoadingState(action, false) }
LoadingAfterFinally(prev, action) == setLoadingState(prev, action, FALSE)

\* The handler's continuation after a successful await stores data.<field>;
\* reading a field of a null body throws inside the handler's try, whose
\* catch ignores the error.
StoresResult(r) == IsSuccess(r) /\ r.body # Null

\* Mutant: the body is stored on the failure path too.
FieldAfter_AlsoOnFailure(action, r, field, old) ==
    IF action = field THEN r.body ELSE old

\* Mutant: a stored body goes to every field, whatever the stage.
FieldAfter_AnyStage(action, r, field, old) ==
    IF StoresResult(r) THEN r.body ELSE old

\* Mutant: storing the result of one stage empties the other fields.
FieldAfter_ClearsOthers(action, r, field, old) ==
    IF StoresResult(r)
    THEN IF action = field THEN r.body ELSE EmptyText
    ELSE old

\* setTranscript / setSummary / setEnrichment in the handler of `action`.
FieldAfter(action, r, field, old) ==
    IF StoresResult(r) /\ action = field THEN r.body ELSE old

\* The response r to call c arrives: handleApiCall resumes (return or catch,
\* then finally) and the continuation of the handler that awaited it runs.
\* No event is handled in between.
Resolve(c, r) ==
    /\ loading' = LoadingAfterFinally(loading, c.action)
    /\ isUpgradeModalOpen' =
           IF IsSuccess(r) THEN ModalAfterSuccess(isUpgradeModalOpen)
           ELSE ModalAfterCatch(isUpgradeModalOpen, r)
    /\ transcript' = FieldAfter(c.action, r, "transcribe", transcript)
    /\ summary' = FieldAfter(c.action, r, "summarize", summary)
    /\ enrichment' = FieldAfter(c.action, r, "enrich", enrichment)
    /\ toast' = IF StoresResult(r) THEN ToastSuccess(SuccessMsg(c.action))
                ELSE IF IsSuccess(r) THEN NoToast
                ELSE ToastAfterCatch(r, c.action)
    /\ calls' = calls (-) SetToBag({c})
    /\ UNCHANGED <<url, proKey, storage, mounted, openedLink,
                   crashed>>

----------------------------------------------------------------------------
(* Stage handlers *)

\* Mutant: the text is tested without trimming.
IsBlank_NoTrim(text) == text = EmptyText

\* !text.trim()
IsBlank(text) == Trim(text) = EmptyText

\* Mutant: the stale results are cleared before the validation returns.
ValidationRejected_ClearsFirst(msg) ==
    /\ toast' = ToastError(msg)
    /\ summary' = EmptyText
    /\ enrichment' = EmptyText
    /\ UNCHANGED <<url, transcript, loading, isUpgradeModalOpen, proKey,
                   storage, mounted, calls, openedLink,
                   crashed>>

\* Mutant: a rejected invocation drops the key held in memory.
ValidationRejected_ForgetsKey(msg) ==
    /\ toast' = ToastError(msg)
    /\ proKey' = NullKey
    /\ UNCHANGED <<url, transcript, summary, enrichment, loading,
                   isUpgradeModalOpen, storage, mounted, calls, openedLink,
                   crashed>>

\* toast.error(msg); return
ValidationRejected(msg) ==
    /\ toast' = ToastError(msg)
    /\ UNCHANGED <<url, transcript, summary, enrichment, loading,
                   isUpgradeModalOpen, proKey, storage, mounted, calls,
                   openedLink,
                   crashed>>

\* Mutant: the stale result is kept.
StaleCleared_Kept(old) == old

\* setSummary(""); setEnrichment("")
StaleCleared(old) == EmptyText

handleTranscribe ==
    /\ mounted
    /\ IF IsBlank(url)
       THEN ValidationRejected(MsgUrlMissing)
       ELSE /\ summary' = StaleCleared(summary)
            /\ enrichment' = StaleCleared(enrichment)
            /\ HandleApiCallIssue("/videos/transcribe", <<"url", url>>,
                                  "transcribe")
            /\ toast' = NoToast
            /\ UNCHANGED <<url, transcript, isUpgradeModalOpen, proKey,
                           storage, mounted, openedLink,
                   crashed>>

\* handleSummarize and handleEnrich differ in the endpoint and the action
\* only.  transcript.trim() throws on undefined: the handler's promise
\* rejects and nothing is changed.
DerivedStageHandler(endpoint, action) ==
    /\ mounted
    /\ IF transcript = Undefined
       THEN /\ toast' = NoToast
            /\ UNCHANGED <<url, transcript, summary, enrichment, loading,
                           isUpgradeModalOpen, proKey, storage, mounted,
                           calls, openedLink,
                   crashed>>
       ELSE IF IsBlank(transcript)
       THEN ValidationRejected(MsgTranscriptMissing)
       ELSE /\ HandleApiCallIssue(endpoint, <<"text", transcript>>, action)
            /\ toast' = NoToast
            /\ UNCHANGED <<url, transcript, summary, enrichment,
                           isUpgradeModalOpen, proKey, storage, mounted,
                           openedLink,
                   crashed>>

handleSummarize == DerivedStageHandler("/videos/summarize", "summarize")

handleEnrich == DerivedStageHandler("/videos/enrich", "enrich")

----------------------------------------------------------------------------
(* Upgrade *)

\* Mutant: buying again takes the key away.
KeyGranted_Toggle(secretKey) ==
    IF storage = MOCK_PRO_KEY THEN "" ELSE MOCK_PRO_KEY

\* The key buyProVersion writes: its argument is not read.
KeyGranted(secretKey) == MOCK_PRO_KEY

\* Mutant: the granted key is added to the calls awaiting their response.
buyProVersion_TagsInFlight(secretKey) ==
    /\ mounted
    /\ storage' = KeyGranted(secretKey)
    /\ proKey' = KeyGranted(secretKey)
    /\ isUpgradeModalOpen' = FALSE
    /\ toast' = ToastSuccess(MsgProActivated)
    /\ calls' = BagOfAll(LAMBDA c :
                             [c EXCEPT !.headers =
                                  Headers(KeyGranted(secretKey))], calls)
    /\ UNCHANGED <<url, transcript, summary, enrichment, loading, mounted,
                   openedLink, crashed>>

\* Mutant: the key is kept in memory only.
buyProVersion_MemoryOnly(secretKey) ==
    /\ mounted
    /\ proKey' = KeyGranted(secretKey)
    /\ isUpgradeModalOpen' = FALSE
    /\ toast' = ToastSuccess(MsgProActivated)
    /\ UNCHANGED <<url, transcript, summary, enrichment, loading, mounted,
                   calls, openedLink, storage, crashed>>

buyProVersion(secretKey) ==
    /\ mounted
    /\ storage' = KeyGranted(secretKey)
    /\ proKey' = KeyGranted(secretKey)
    /\ isUpgradeModalOpen' = FALSE
    /\ toast' = ToastSuccess(MsgProActivated)
    /\ UNCHANGED <<url, transcript, summary, enrichment, loading, mounted,
                   calls, openedLink,
                   crashed>>

\* onClose={() => setIsUpgradeModalOpen(false)}
onClose ==
    /\ mounted
    /\ isUpgradeModalOpen' = FALSE
    /\ toast' = NoToast
    /\ UNCHANGED <<url, transcript, summary, enrichment, loading, proKey,
                   storage, mounted, calls, openedLink,
                   crashed>>

----------------------------------------------------------------------------
(* The rendered controls *)

\* <Button data-testid="transcribe-button" disabled={loading.transcribe}>
ClickTranscribe ==
    /\ ~loading["transcribe"]
    /\ handleTranscribe

\* Mutant: the summarize button is not disabled while loading.
ClickSummarize_NoDisable ==
    /\ Truthy(transcript)
    /\ handleSummarize

\* {transcript && ( <Button data-testid="summarize-button"
\*                          disabled={loading.summarize}> ... )}
ClickSummarize ==
    /\ Truthy(transcript)
    /\ ~loading["summarize"]
    /\ handleSummarize

ClickEnrich ==
    /\ Truthy(transcript)
    /\ ~loading["enrich"]
    /\ handleEnrich

\* UpgradeDialog's main button: onClick={() => window.open(UPGRADE_LINK, '_blank')}.
\* The dialog destructures isOpen and onClose only; onUpgrade is not used.
ClickUpgrade ==
    /\ mounted
    /\ isUpgradeModalOpen
    /\ openedLink' = UPGRADE_LINK
    /\ toast' = NoToast
    /\ UNCHANGED <<url, transcript, summary, enrichment, loading,
                   isUpgradeModalOpen, proKey, storage, mounted, calls,
                   crashed>>

\* UpgradeDialog's second button and the dialog's onOpenChange: onClose.
ClickClose ==
    /\ isUpgradeModalOpen
    /\ onClose

----------------------------------------------------------------------------
(* Specifications *)

ResolveSome == \E c \in BagToSet(calls) : \E r \in Responses(c) : Resolve(c, r)

Next ==
    \/ LoadProKey
    \/ Reload
    \/ \E u \in Urls : SetUrl(u)
    \/ handleTranscribe
    \/ handleSummarize
    \/ handleEnrich
    \/ \E k \in SecretKeys : buyProVersion(k)
    \/ onClose
    \/ ResolveSome

Spec == Init /\ [][Next]_vars

NextUI ==
    \/ LoadProKey
    \/ Reload
    \/ \E u \in Urls : SetUrl(u)
    \/ ClickTranscribe
    \/ ClickSummarize
    \/ ClickEnrich
    \/ ClickUpgrade
    \/ ClickClose
    \/ ResolveSome

SpecUI == Init /\ [][NextUI]_vars

\* The response to some call of stage s arrives.
ResolveStage(s) ==
    \E c \in BagToSet(calls) :
        /\ c.action = s
        /\ \E r \in Responses(c) : Resolve(c, r)

\* axios.post settles: the service answers or the call errors.  A call keeps
\* awaiting its response until it is handled or the page is closed.
FairSpecUI == SpecUI /\ \A s \in Stages : WF_vars(ResolveStage(s))

----------------------------------------------------------------------------
(* Properties *)

\* The number of calls of a stage awaiting their response.
InFlight(s) ==
    LET own == {c \in BagToSet(calls) : c.action = s}
    IN  BagCardinality([c \in own |-> calls[c]])

\* A step in which an invocation of stage s is started (its call is issued).
Started(s) == InFlight(s)' > InFlight(s)

\* A step in which the response to an invocation of stage s is handled.
ResolvedStage(s) == mounted' /\ InFlight(s)' < InFlight(s)

\* A step in which the response r to call c is handled.
Resolved(c, r) == mounted' /\ calls' # calls /\ Resolve(c, r)

QuotaResponses == {r \in ErrorResponses : r.status = 429}

Pipeline == <<transcript, summary, enrichment>>

\* C1 as stated: for every stage, in every reachable state, loading[stage] is
\* true exactly when an invocation of that stage has started and has not yet
\* resolved, whether or not invocations of the stage overlap.
C1_LoadingIffInFlight ==
    \A s \in Stages : loading[s] <=> InFlight(s) > 0

\* C1 amended: loading[stage] is false whenever no invocation of the stage is
\* in flight; it becomes true when an invocation of the stage starts, false
\* when an invocation of the stage resolves, and no other step changes it.
\* Hence it is true exactly while an invocation is unresolved as long as
\* invocations of one stage do not overlap.
C1_LoadingFollowsLastEvent ==
    [][\A s \in Stages :
          LET before == InFlight(s)
              after == InFlight(s)'
          IN  /\ after = 0 => ~loading'[s]
              /\ after > before => loading'[s]
              /\ after < before => ~loading'[s]
              /\ after = before => loading'[s] = loading[s]]_vars

\* Two stages each have one invocation in flight and show their flags.
C1_Witness ==
    /\ InFlight("summarize") = 1 /\ loading["summarize"]
    /\ InFlight("enrich") = 1 /\ loading["enrich"]
    /\ ~loading["transcribe"]

\* C2: on every exit path of handleApiCall (success, 429, any other
\* failure) the stage's loading flag is false in the state right after the
\* response is handled.
C2_LoadingClearedOnExit ==
    [][\A s \in Stages : ResolvedStage(s) => loading'[s] = FALSE]_vars

\* A failure other than 429 has just been handled and nothing is loading.
C2_Witness ==
    /\ toast = ToastError(MsgFailed("enrich"))
    /\ calls = EmptyBag
    /\ loading = LoadingIdle

\* C3: handling a 429 response opens the upgrade dialog and changes none of
\* transcript, summary, enrichment.
C3_QuotaOpensPaywall ==
    [][\A c \in BagToSet(calls) : \A r \in QuotaResponses :
          Resolved(c, r) => (isUpgradeModalOpen' /\ UNCHANGED Pipeline)]_vars

\* A 429 carrying the detail "limit reached" has been handled while a
\* transcript and a summary were held.
C3_Witness ==
    /\ isUpgradeModalOpen
    /\ toast = ToastError("limit reached")
    /\ transcript = <<"a">>
    /\ summary = SummaryOf(<<"a">>)

\* C4: the step that starts a transcribe invocation (validation passed, the
\* call issued) leaves summary and enrichment empty, before any response.
C4_TranscribeClearsDerived ==
    [][Started("transcribe") =>
          (summary' = EmptyText /\ enrichment' = EmptyText)]_vars

\* A transcribe call is in flight over an earlier transcript, the derived
\* results cleared.
C4_Witness ==
    /\ InFlight("transcribe") = 1
    /\ transcript = <<"a">>
    /\ summary = EmptyText
    /\ enrichment = EmptyText

\* C5 as stated: after grantEntitlement(token) the header a started
\* invocation sends carries exactly that token, every call is issued with
\* the header of the key held when it starts, and while the slot holds no
\* token (none stored, none granted) no call carries one.
C5_RequestsCarryGrantedToken ==
    /\ [](~TruthyKey(storage) =>
            \A c \in BagToSet(calls) : c.headers = {})
    /\ [][/\ \A k \in SecretKeys :
                buyProVersion(k) => Headers(proKey') = {<<"X-PRO-KEY", k>>}
          /\ \A s \in Stages :
                Started(s) =>
                    \E c \in BagToSet(calls') :
                        /\ c.action = s
                        /\ c.headers = Headers(proKey)
                        /\ CopiesIn(c, calls') > CopiesIn(c, calls)]_vars

\* C6 as stated: the transcript, summary and enrichment held before an
\* invocation was started are still held once its failure is surfaced, for
\* every stage including transcribe.  Any started invocation may fail, and
\* the invocation's own steps are its start and the handling of its
\* failure, so neither of the two changes any of the three fields.
C6_FailedInvocationKeepsResults ==
    [][/\ \A s \in Stages : Started(s) => UNCHANGED Pipeline
       /\ \A c \in BagToSet(calls) : \A r \in ErrorResponses :
              Resolved(c, r) => UNCHANGED Pipeline]_vars

\* C6 amended: handling a failure changes none of transcript, summary,
\* enrichment; starting a summarize or enrich invocation changes none of
\* them either; starting a transcribe invocation keeps the transcript but
\* empties summary and enrichment, which a later failure does not restore.
C6_FailureKeepsWhatStartLeft ==
    [][/\ \A s \in {"summarize", "enrich"} : Started(s) => UNCHANGED Pipeline
       /\ Started("transcribe") =>
              /\ transcript' = transcript
              /\ summary' = EmptyText
              /\ enrichment' = EmptyText
       /\ \A c \in BagToSet(calls) : \A r \in ErrorResponses :
              Resolved(c, r) => UNCHANGED Pipeline]_vars

\* A transcribe invocation has just failed: the earlier transcript is still
\* held, and the derived results it cleared at its start are empty.
C6_Witness ==
    /\ toast = ToastError(MsgFailed("transcribe"))
    /\ transcript = <<"a">>
    /\ summary = EmptyText
    /\ enrichment = EmptyText
    /\ calls = EmptyBag

\* A step of handleSummarize or handleEnrich that raises the validation
\* error and issues no call.
DerivedRejected ==
    /\ handleSummarize \/ handleEnrich
    /\ toast' = ToastError(MsgTranscriptMissing)
    /\ calls' = calls

\* A step of handleSummarize or handleEnrich that issues a call.
DerivedAccepted ==
    /\ handleSummarize \/ handleEnrich
    /\ Started("summarize") \/ Started("enrich")

\* C7 as stated: a summarize or enrich invocation is rejected with the
\* validation error if and only if the transcript is the empty string; every
\* other transcript, whitespace-only ones included, is accepted.
C7_RejectedIffEmpty ==
    [][/\ DerivedRejected => transcript = EmptyText
       /\ (handleSummarize \/ handleEnrich) /\ transcript = EmptyText
              => DerivedRejected]_vars

\* C7 amended: a summarize or enrich invocation over a string transcript is
\* rejected with the validation error if and only if the transcript is empty
\* once its leading and trailing whitespace is removed; a whitespace-only
\* transcript is rejected and no call is issued for it.
C7_RejectedIffBlank ==
    [][/\ DerivedRejected => Trim(transcript) = EmptyText
       /\ DerivedAccepted => Trim(transcript) # EmptyText
       /\ (handleSummarize \/ handleEnrich) /\ Trim(transcript) = EmptyText
              => DerivedRejected]_vars

\* A whitespace-only transcript has just been rejected.
C7_Witness ==
    /\ transcript = <<" ">>
    /\ toast = ToastError(MsgTranscriptMissing)
    /\ calls = EmptyBag

\* A step in which a handler's validation fails: handleTranscribe over a
\* blank URL, handleSummarize or handleEnrich over a blank transcript.
ValidationFails ==
    \/ handleTranscribe /\ Trim(url) = EmptyText
    \/ (handleSummarize \/ handleEnrich) /\ Trim(transcript) = EmptyText

\* C8: an invocation that fails validation issues no call and leaves the
\* loading flags, transcript, summary, enrichment, the paywall signal and the
\* entitlement (in memory and stored) unchanged.
C8_ValidationFailureChangesNothing ==
    [][ValidationFails =>
          UNCHANGED <<calls, loading, transcript, summary, enrichment,
                      isUpgradeModalOpen, proKey, storage>>]_vars

\* A blank URL has just been rejected while a summarize call was in flight
\* and the paywall was open.
C8_Witness ==
    /\ toast = ToastError(MsgUrlMissing)
    /\ InFlight("summarize") = 1
    /\ loading["summarize"]
    /\ isUpgradeModalOpen
    /\ transcript = <<"a">>

\* C9 as stated: with the upgrade dialog open, its accept button grants the
\* entitlement: afterwards a key is held in memory and in storage and the
\* dialog is closed.
C9_AcceptGrantsEntitlement ==
    [][ClickUpgrade =>
          /\ TruthyKey(proKey')
          /\ storage' = proKey'
          /\ ~isUpgradeModalOpen']_vars

\* C10 as stated: buyProVersion(token) leaves the storage slot and the
\* in-memory key equal to the token it was given, for every token, and the
\* paywall signal false.
C10_GrantStoresGivenToken ==
    [][\A k \in SecretKeys :
          buyProVersion(k) =>
              /\ storage' = k
              /\ proKey' = k
              /\ ~isUpgradeModalOpen']_vars

----------------------------------------------------------------------------
(* Properties, continued *)

\* The endpoint of each stage (section 6 of the design; App.js:104,119,134).
EndpointOf(s) ==
    CASE s = "transcribe" -> "/videos/transcribe"
      [] s = "summarize" -> "/videos/summarize"
      [] s = "enrich" -> "/videos/enrich"

\* The 2xx responses to call c, and those among them whose body is stored.
OkResponses(c) ==
    {[status |-> 200, body |-> b, detail |-> NoDetail] : b \in OkBodies(c)}

StoredResponses(c) == {r \in OkResponses(c) : r.body # Null}

\* A step that issues exactly one call, of stage s, and removes none.
IssuesOne(s) ==
    /\ BagCardinality(calls') = BagCardinality(calls) + 1
    /\ \E c \in BagToSet(calls') :
          /\ c.action = s
          /\ c.endpoint = EndpointOf(s)
          /\ CopiesIn(c, calls') = CopiesIn(c, calls) + 1

\* C11: an invocation that passes validation issues exactly one call, to the
\* endpoint of its own stage; no step issues more than one call, and the
\* handling of a response, a failure included, issues none (no retry).
C11_OneCallNoRetry ==
    [][/\ BagCardinality(calls') <= BagCardinality(calls) + 1
       /\ \A s \in Stages :
             /\ Started(s) => IssuesOne(s)
             /\ ResolvedStage(s) =>
                    BagCardinality(calls') = BagCardinality(calls) - 1]_vars

\* A 429 without detail has just been handled and no call is in flight.
C11_Witness ==
    /\ toast = ToastError(MsgQuota)
    /\ calls = EmptyBag
    /\ isUpgradeModalOpen

\* C12: within a page session, transcript changes only in the step that
\* handles a 2xx response to a transcribe call, summary becomes non-empty
\* only in the step that handles a 2xx response to a summarize call, and
\* enrichment only in the step that handles a 2xx response to an enrich
\* call; no failure path writes a field.  (A reload constructs the state
\* anew, with the three fields empty.)
C12_OutputOnlyOnOwnSuccess ==
    [][mounted' =>
          /\ transcript' # transcript =>
                \E c \in BagToSet(calls) :
                    /\ c.action = "transcribe"
                    /\ \E r \in StoredResponses(c) : Resolve(c, r)
          /\ (summary' # summary /\ summary' # EmptyText) =>
                \E c \in BagToSet(calls) :
                    /\ c.action = "summarize"
                    /\ \E r \in StoredResponses(c) : Resolve(c, r)
          /\ (enrichment' # enrichment /\ enrichment' # EmptyText) =>
                \E c \in BagToSet(calls) :
                    /\ c.action = "enrich"
                    /\ \E r \in StoredResponses(c) : Resolve(c, r)]_vars

\* An enrich call has just succeeded; no summary was ever produced.
C12_Witness ==
    /\ toast = ToastSuccess(SuccessMsg("enrich"))
    /\ enrichment = EnrichmentOf(<<"a">>)
    /\ summary = EmptyText
    /\ transcript = <<"a">>

\* The failures other than 429, and the 2xx responses that are malformed
\* (null body, or no result field).
OtherFailures == {r \in ErrorResponses : r.status # 429}

MalformedResponses(c) == {r \in OkResponses(c) : r.body \in {Undefined, Null}}

\* C13 as stated: a network error, a server error other than 429, or a 2xx
\* response without the expected result field clears loading[stage], raises
\* an error notification, leaves the paywall signal as it was and changes
\* none of transcript, summary, enrichment.
C13_OtherFailureIsRequestFailed ==
    [][\A c \in BagToSet(calls) :
          \A r \in OtherFailures \cup MalformedResponses(c) :
              Resolved(c, r) =>
                  /\ loading'[c.action] = FALSE
                  /\ toast'.kind = "error"
                  /\ isUpgradeModalOpen' = isUpgradeModalOpen
                  /\ UNCHANGED Pipeline]_vars

\* C14 as stated: loading the entitlement never fails: no error leaves the
\* mount effect, and with the slot missing, empty or unreadable the
\* entitlement is absent.
C14_LoadNeverFails ==
    /\ ~crashed
    /\ (mounted /\ ~TruthyKey(storage)) => proKey = NullKey

\* C15: granting is idempotent: a buyProVersion(t) taken right after a
\* buyProVersion(t) leaves the storage slot, the in-memory key and the
\* paywall signal as the first one left them.
C15_GrantIdempotent ==
    [][\A k \in SecretKeys :
          (toast = ToastSuccess(MsgProActivated) /\ buyProVersion(k)) =>
              UNCHANGED <<storage, proKey, isUpgradeModalOpen>>]_vars

\* A grant has just been made.
C15_Witness ==
    /\ toast = ToastSuccess(MsgProActivated)
    /\ storage = MOCK_PRO_KEY
    /\ proKey = MOCK_PRO_KEY
    /\ ~isUpgradeModalOpen
    /\ calls # EmptyBag

\* A step of the handler of stage s over an input that passes validation.
ValidInvocation(s) ==
    CASE s = "transcribe" -> handleTranscribe /\ Trim(url) # EmptyText
      [] s = "summarize" ->
            handleSummarize /\ transcript # Undefined
                            /\ Trim(transcript) # EmptyText
      [] s = "enrich" ->
            handleEnrich /\ transcript # Undefined
                         /\ Trim(transcript) # EmptyText

\* The field a stage's result is stored in.
FieldOf(s) ==
    CASE s = "transcribe" -> transcript
      [] s = "summarize" -> summary
      [] s = "enrich" -> enrichment

\* C16: a stage has no persistent failure state.  Handling a failure leaves
\* the stage idle; every invocation with valid input, whatever happened
\* before, issues a fresh call, which carries the key then held; a grant
\* leaves a key held; and a 2xx response to the call stores its result.
C16_NoPersistentFailure ==
    [][/\ \A s \in Stages :
             /\ ResolvedStage(s) => loading'[s] = FALSE
             /\ ValidInvocation(s) =>
                    /\ Started(s)
                    /\ \E c \in BagToSet(calls') :
                          /\ c.action = s
                          /\ CopiesIn(c, calls') > CopiesIn(c, calls)
                          /\ c.headers = IF proKey \in {NullKey, ""} THEN {}
                                         ELSE {<<"X-PRO-KEY", proKey>>}
       /\ \A k \in SecretKeys :
             buyProVersion(k) => (proKey' \notin {NullKey, ""}
                                  /\ storage' = proKey')
       /\ \A c \in BagToSet(calls) : \A r \in StoredResponses(c) :
             Resolved(c, r) => FieldOf(c.action)' = r.body]_vars

\* After a grant, a summarize call carrying the granted key is in flight.
C16_Witness ==
    /\ storage = MOCK_PRO_KEY
    /\ ~isUpgradeModalOpen
    /\ \E c \in BagToSet(calls) :
          /\ c.action = "summarize"
          /\ c.headers = {<<"X-PRO-KEY", MOCK_PRO_KEY>>}

\* C17: with the controls disabled while their stage is loading, at most one
\* call per stage is in flight in every reachable state.
C17_OneCallPerStage ==
    \A s \in Stages : InFlight(s) <= 1

\* Calls of two different stages are in flight at the same time.
C17_Witness ==
    /\ InFlight("transcribe") = 1
    /\ InFlight("enrich") = 1
    /\ transcript = <<"a">>

\* C18: handling a 2xx response leaves the paywall signal as it was.
C18_SuccessKeepsPaywall ==
    [][\A c \in BagToSet(calls) : \A r \in OkResponses(c) :
          Resolved(c, r) => isUpgradeModalOpen' = isUpgradeModalOpen]_vars

\* A summarize call has just succeeded with the paywall open.
C18_Witness ==
    /\ isUpgradeModalOpen
    /\ toast = ToastSuccess(SuccessMsg("summarize"))
    /\ summary = SummaryOf(<<"a">>)

\* C19: starting an invocation removes no call in flight, and a 2xx response
\* to a summarize or enrich call is stored even when the call was issued
\* over a transcript other than the current one.
C19_StaleResultStored ==
    [][/\ \A s \in Stages :
             Started(s) =>
                 \A c \in BagToSet(calls) :
                     CopiesIn(c, calls') >= CopiesIn(c, calls)
       /\ \A c \in BagToSet(calls) : \A r \in StoredResponses(c) :
             (c.action # "transcribe" /\ c.data[2] # transcript
                  /\ Resolved(c, r)) =>
                 FieldOf(c.action)' = r.body]_vars

\* The summary held was derived from a transcript that is no longer the
\* current one.
C19_Witness ==
    /\ summary = SummaryOf(<<"a">>)
    /\ transcript = <<" ">>

\* C20 as stated: whenever summary or enrichment is non-empty, transcript
\* is non-empty.
C20_DerivedImpliesTranscript ==
    (summary \notin {EmptyText, Undefined}
         \/ enrichment \notin {EmptyText, Undefined})
        => transcript # EmptyText

----------------------------------------------------------------------------
(* Properties: termination, commutation, entitlement *)

\* C21: provided every call is eventually answered or errors, an invocation
\* that has been issued is eventually resolved and the loading flag of its
\* stage returns to false: a stage that is loading eventually is not
\* loading and has no call in flight.
C21_EveryInvocationResolves ==
    \A s \in Stages :
        (loading[s] \/ InFlight(s) > 0) ~> (~loading[s] /\ InFlight(s) = 0)

\* An enrich invocation has just been resolved by a failure without
\* response and nothing is loading.
C21_Witness ==
    /\ toast = ToastError(MsgFailed("enrich"))
    /\ loading = LoadingIdle
    /\ calls = EmptyBag
    /\ mounted

\* The loading flags and the two derived results, and what the handling of
\* response r to call c makes of them.
Derived == [loading |-> loading, summary |-> summary,
            enrichment |-> enrichment]

DerivedAfter(st, c, r) ==
    [loading |-> LoadingAfterFinally(st.loading, c.action),
     summary |-> FieldAfter(c.action, r, "summarize", st.summary),
     enrichment |-> FieldAfter(c.action, r, "enrich", st.enrichment)]

\* The stage other than s among summarize and enrich, and its field.
OtherDerived(s) == IF s = "summarize" THEN "enrich" ELSE "summarize"

\* C22: with a summarize and an enrich call in flight over the same
\* transcript, handling the two 2xx responses in either order gives the same
\* summary, enrichment and loading flags, with both stages' flags false; and
\* the handling of a 2xx response to one of the two stages changes neither
\* the loading flag nor the result field of the other, nor its call.
C22_DerivedStagesCommute ==
    [][/\ \A cs \in BagToSet(calls) : \A ce \in BagToSet(calls) :
             (cs.action = "summarize" /\ ce.action = "enrich"
                  /\ cs.data = ce.data) =>
                 \A rs \in StoredResponses(cs) : \A re \in StoredResponses(ce) :
                     LET se == DerivedAfter(DerivedAfter(Derived, cs, rs), ce, re)
                         es == DerivedAfter(DerivedAfter(Derived, ce, re), cs, rs)
                     IN  /\ se = es
                         /\ se.summary = rs.body
                         /\ se.enrichment = re.body
                         /\ ~se.loading["summarize"]
                         /\ ~se.loading["enrich"]
       /\ \A c \in BagToSet(calls) : \A r \in StoredResponses(c) :
             (c.action # "transcribe" /\ Resolved(c, r)) =>
                 /\ Derived' = DerivedAfter(Derived, c, r)
                 /\ loading'[OtherDerived(c.action)]
                        = loading[OtherDerived(c.action)]
                 /\ FieldOf(OtherDerived(c.action))'
                        = FieldOf(OtherDerived(c.action))
                 /\ InFlight(OtherDerived(c.action))'
                        = InFlight(OtherDerived(c.action))]_vars

\* The summary has just been stored while the enrich call over the same
\* transcript, issued before, still awaits its response.
C22_Witness ==
    /\ toast = ToastSuccess(SuccessMsg("summarize"))
    /\ summary = SummaryOf(<<"a">>)
    /\ enrichment = EmptyText
    /\ ~loading["summarize"]
    /\ loading["enrich"]
    /\ \E c \in BagToSet(calls) :
          c.action = "enrich" /\ c.data = <<"text", <<"a">> >>

\* C23: no step of a stage invocation changes the key held in memory or the
\* storage slot: neither a handler's step (a start or a rejection) nor the
\* handling of a response (2xx, 429, another failure).  The slot is written
\* by buyProVersion only; the key in memory by buyProVersion and by the
\* mount effect only, and a reload constructs it anew.
C23_StagesLeaveEntitlement ==
    [][/\ (handleTranscribe \/ handleSummarize \/ handleEnrich) =>
              UNCHANGED <<proKey, storage>>
       /\ \A s \in Stages :
              ResolvedStage(s) => UNCHANGED <<proKey, storage>>
       /\ storage' # storage => \E k \in SecretKeys : buyProVersion(k)
       /\ proKey' # proKey =>
              \/ \E k \in SecretKeys : buyProVersion(k)
              \/ LoadProKey
              \/ Reload]_vars

\* A 429 has just been handled with a stored key held: the key is still
\* held and stored.
C23_Witness ==
    /\ toast = ToastError(MsgQuota)
    /\ isUpgradeModalOpen
    /\ proKey = "stored-key"
    /\ storage = "stored-key"

\* A key is present: neither null nor the empty string (nor, for the slot,
\* unreadable).
Present(k) == k \notin {NullKey, "", StorageUnavailable}

\* C24: an entitlement, once granted, does not become absent.  A grant
\* leaves the same key present in memory and in the slot; while the page
\* stays open a key present in memory stays present; the slot, once it holds
\* a key, holds one after every step, and a reload and the mount effect leave
\* it as it is; the mount effect after a reload puts the key of the slot in
\* memory again; and an invocation started with a key present carries it.
C24_EntitlementNeverLost ==
    [][/\ \A k \in SecretKeys :
             buyProVersion(k) => (Present(proKey') /\ storage' = proKey')
       /\ (mounted /\ mounted' /\ Present(proKey)) => Present(proKey')
       /\ Present(storage) => Present(storage')
       /\ (Reload \/ LoadProKey) => storage' = storage
       /\ (LoadProKey /\ Present(storage)) =>
              (mounted' /\ proKey' = storage)
       /\ \A s \in Stages :
             (Started(s) /\ Present(proKey)) =>
                 \E c \in BagToSet(calls') :
                     /\ c.action = s
                     /\ CopiesIn(c, calls') > CopiesIn(c, calls)
                     /\ c.headers = {<<"X-PRO-KEY", proKey>>}]_vars

\* The granted key is held and is attached to a transcribe call issued on a
\* page that has produced no transcript yet.
C24_Witness ==
    /\ mounted
    /\ storage = MOCK_PRO_KEY
    /\ proKey = MOCK_PRO_KEY
    /\ transcript = EmptyText
    /\ toast = NoToast
    /\ \E c \in BagToSet(calls) :
          /\ c.action = "transcribe"
          /\ c.headers = {<<"X-PRO-KEY", MOCK_PRO_KEY>>}

\* C25: once the mount effect has run, the key in memory and the storage
\* slot agree: a key is present in memory exactly when the slot holds a
\* non-empty one, and then the two are equal.
C25_MemoryAgreesWithStorage ==
    (mounted \/ crashed) =>
        /\ Present(proKey) <=> Present(storage)
        /\ Present(proKey) => proKey = storage

\* The mount effect has just taken the key found in the slot.
C25_Witness ==
    /\ mounted
    /\ storage = "stored-key"
    /\ proKey = "stored-key"
    /\ url = EmptyText
    /\ calls = EmptyBag
    /\ toast = NoToast

\* C26: the paywall signal goes from false to true only in the step that
\* handles a 429 response, and from true to false only by buyProVersion, by
\* onClose, or by a reload of the page, which constructs it anew; a handler's
\* step (a start or a rejection) and the handling of any response other than
\* a 429 leave it as it was.
C26_PaywallTransitions ==
    [][/\ (~isUpgradeModalOpen /\ isUpgradeModalOpen') =>
              \E c \in BagToSet(calls) : \E r \in QuotaResponses :
                  Resolve(c, r)
       /\ (isUpgradeModalOpen /\ ~isUpgradeModalOpen') =>
              \/ \E k \in SecretKeys : buyProVersion(k)
              \/ onClose
              \/ Reload
       /\ (handleTranscribe \/ handleSummarize \/ handleEnrich) =>
              isUpgradeModalOpen' = isUpgradeModalOpen
       /\ isUpgradeModalOpen' # isUpgradeModalOpen =>
              \A c \in BagToSet(calls) :
                  \A r \in Responses(c) \ QuotaResponses :
                      ~Resolved(c, r)]_vars

\* A failure other than a 429 has just been handled with the paywall open,
\* and it is still open.
C26_Witness ==
    /\ isUpgradeModalOpen
    /\ toast = ToastError(MsgFailed("summarize"))
    /\ ~loading["summarize"]

\* A step that issues exactly one call of the given stage, payload and
\* headers and leaves the calls in flight as they are.
IssuesCall(s, data, headers) ==
    \E c \in BagToSet(calls') :
        /\ c.action = s
        /\ c.data = data
        /\ c.headers = headers
        /\ calls' = calls (+) SetToBag({c})

\* C27: the key and the payload of a request are those held when its
\* invocation starts, and they are not changed afterwards.  A started
\* summarize or enrich carries the transcript held in that step, a started
\* transcribe the URL, each with the key held in that step (none if none is
\* held); a grant leaves the calls in flight as they are; and every step that
\* starts no invocation, the handling of a response that replaces transcript
\* included, only removes calls.
C27_RequestFixedAtStart ==
    [][/\ \A s \in Stages :
             Started(s) =>
                 IssuesCall(s,
                            IF s = "transcribe" THEN <<"url", url>>
                            ELSE <<"text", transcript>>,
                            IF Present(proKey)
                            THEN {<<"X-PRO-KEY", proKey>>} ELSE {})
       /\ \A k \in SecretKeys : buyProVersion(k) => calls' = calls
       /\ (\A s \in Stages : ~Started(s)) => calls' \sqsubseteq calls]_vars

\* A summarize call issued without a key over the transcript "a" is still
\* in flight, as issued, after the transcript was replaced and a key granted.
C27_Witness ==
    /\ proKey = MOCK_PRO_KEY
    /\ transcript = <<" ">>
    /\ \E c \in BagToSet(calls) :
          /\ c.action = "summarize"
          /\ c.data = <<"text", <<"a">> >>
          /\ c.headers = {}

====
